---- MODULE Spec2Model ----
(***************************************************************************)
(* A state-machine model of the device image-stream client                 *)
(* (simple_websocket_client.WebSocketClient), of the reconnect logic of    *)
(* its owner (core.base_recorder.BaseRecorder) and of the multi-stage      *)
(* recording sequencer (recorder_app.PaperTrackerRecorder).                *)
(*                                                                         *)
(* Strings are modelled as sequences of one-character strings, so that     *)
(* startswith / endswith / "in" / replace are computed as Python does.     *)
(***************************************************************************)
EXTENDS Integers, Sequences, FiniteSets, TLC

\* ------------------------------------------------------------------ bounds
MaxClients == 1        \* client objects alive at the same time
MaxThreads == 2        \* connection threads of one client alive at the same time
MaxQueue == 2          \* queued (cross-thread) signal deliveries pending in the GUI loop
MaxAttemptsBound == 2  \* max_reconnect_attempts is drawn from 0..MaxAttemptsBound
MaxImages == 2         \* images a session saves before the model stops counting
MaxStages == 2         \* stages of a recording plan
MaxTarget == 2         \* target_count of a stage
MaxFolders == 2        \* session folders created
MaxSaves == 3          \* images a recorder tries to save
MaxElapsed == 3        \* half minutes a recording lasts
MaxMessages == 3       \* binary messages a connection receives

Clients == 1..MaxClients
ThreadIds == 1..MaxThreads

\* ----------------------------------------------------------------- strings
S_ws == <<"w", "s", ":", "/", "/">>
S_wss == <<"w", "s", "s", ":", "/", "/">>
S_http == <<"h", "t", "t", "p", ":", "/", "/">>
S_https == <<"h", "t", "t", "p", "s", ":", "/", "/">>
S_path == <<"/", "w", "s">>
S_slash == <<"/">>

\* str.startswith
StartsWith(s, p) == Len(s) >= Len(p) /\ SubSeq(s, 1, Len(p)) = p

\* str.endswith
EndsWith(s, p) == Len(s) >= Len(p) /\ SubSeq(s, Len(s) - Len(p) + 1, Len(s)) = p

\* ch in s
Contains(s, ch) == \E k \in 1..Len(s) : s[k] = ch

\* str.strip
RECURSIVE Strip(_)
Strip(s) ==
    IF s = << >> THEN s
    ELSE IF Head(s) = " " THEN Strip(Tail(s))
    ELSE IF s[Len(s)] = " " THEN Strip(SubSeq(s, 1, Len(s) - 1))
    ELSE s

\* str.replace(old, new): every occurrence, scanning from the left
RECURSIVE Replace(_, _, _)
Replace(s, old, new) ==
    IF s = << >> THEN s
    ELSE IF StartsWith(s, old) THEN new \o Replace(SubSeq(s, Len(old) + 1, Len(s)), old, new)
    ELSE <<Head(s)>> \o Replace(Tail(s), old, new)

\* WebSocketClient.connect_to_device, lines 83-92: the scheme rewrite
NormalizeUrl(raw) ==
    LET u == Strip(raw) IN
    IF StartsWith(u, S_ws) \/ StartsWith(u, S_wss) THEN u
    ELSE IF StartsWith(u, S_http) THEN Replace(u, S_http, S_ws)
    ELSE IF StartsWith(u, S_https) THEN Replace(u, S_https, S_wss)
    ELSE S_ws \o u

\* WebSocketClient.connect_to_device, lines 94-99: the candidate list
UrlVariants(raw) ==
    LET u == NormalizeUrl(raw) IN
    IF ~EndsWith(u, S_path) /\ ~EndsWith(u, S_slash) THEN <<u, u \o S_path>>
    ELSE IF EndsWith(u, S_slash) THEN <<u, u \o <<"w", "s">> >>
    ELSE <<u>>

\* the addresses a caller hands to set_url in the client harness
A_bare == <<"h">>
A_ws == <<"w", "s", ":", "/", "/", "h">>
A_wsPath == <<"w", "s", ":", "/", "/", "h", "/", "w", "s">>
ClientUrls == {A_bare, A_wsPath}

\* the address the owner builds from the address field: BaseRecorder.connect_device
WithPath(addr) ==
    IF ~Contains(addr, "/") /\ Contains(addr, ":") THEN addr \o S_path
    ELSE IF ~Contains(addr, "/") THEN addr \o S_path
    ELSE addr

\* the texts the user types into the address field
DeviceInputs == {A_bare, A_ws}

\* --------------------------------------------------------------- variables
VARIABLES
    \* WebSocketClient fields, per client object
    url, is_running, is_connected_flag, websocket, current_image, url_variants,
    \* the connection threads of each client: position, loop index, its list, its socket
    thread,
    \* whether the client's signals are connected to the recorder's slots
    wired,
    \* history of one start: candidates attempted, signals emitted, stop seen, overlap
    tried, emitted, stopped, overlap,
    \* the GUI thread's queue of signal deliveries posted by connection threads
    queue,
    \* BaseRecorder fields
    websocket_client, is_recording, current_session, reconnect_timer,
    reconnect_attempts, max_reconnect_attempts, disconnecting, device_input,
    connect_btn, disconnect_btn, start_btn, stop_btn,
    \* the modal message box the GUI thread is blocked in, and the handler it suspends
    gui,
    \* history of the recorder: disconnect events handled in the current run, why the
    \* client was last torn down (by the user: idle / rec / backoff, or the reconnect
    \* budget ran out), who created each client
    run, teardown, origin,
    \* the one WebSocketImageStream object: its fields, its connection threads (conn),
    \* and the history of its last start (candidates attempted, all-failed errors,
    \* connected signals, stop seen, threads of an earlier start still alive)
    stream,
    \* the PaperTrackerRecorder window: the fields of its multi-stage recording
    app,
    \* the session folders, the counters of the session and its archive
    store,
    \* an address and the candidate list made of it
    norm,
    \* a connection that receives messages: what the client or the stream keeps of them
    rx

clientVars == <<url, is_running, is_connected_flag, websocket, current_image,
                url_variants, thread, wired, tried, emitted, stopped, overlap>>

recVars == <<websocket_client, is_recording, current_session, reconnect_timer,
             reconnect_attempts, max_reconnect_attempts, disconnecting, device_input,
             connect_btn, disconnect_btn, start_btn, stop_btn, gui,
             run, teardown, origin>>

\* what a connection thread never touches
otherVars == <<recVars, stream, app, store, norm, rx>>

vars == <<clientVars, queue, otherVars>>

NoThread == [pc |-> "none", i |-> 0, urls |-> << >>, sock |-> FALSE]
NewThread == [pc |-> "start", i |-> 0, urls |-> << >>, sock |-> FALSE]
NoEmitted == [connected |-> 0, disconnected |-> 0, error |-> 0]
NoSession == [open |-> FALSE, image_count |-> 0]
EmitCap == 2

Min(a, b) == IF a < b THEN a ELSE b

LiveThread(th) == th.pc \notin {"none", "done"}
LiveThreadsOf(ths) == {t \in ThreadIds : LiveThread(ths[t])}
Live(c, t) == LiveThread(thread[c][t])
LiveThreads(c) == LiveThreadsOf(thread[c])
LowestFree(S) == CHOOSE x \in S : \A y \in S : x <= y

\* the whole state as one record, so that a handler is a function from state to state
\* and one handler can call another
State ==
    [url |-> url, is_running |-> is_running, is_connected_flag |-> is_connected_flag,
     websocket |-> websocket, current_image |-> current_image,
     url_variants |-> url_variants, thread |-> thread, wired |-> wired,
     tried |-> tried, emitted |-> emitted, stopped |-> stopped, overlap |-> overlap,
     queue |-> queue,
     websocket_client |-> websocket_client, is_recording |-> is_recording,
     current_session |-> current_session, reconnect_timer |-> reconnect_timer,
     reconnect_attempts |-> reconnect_attempts,
     max_reconnect_attempts |-> max_reconnect_attempts,
     disconnecting |-> disconnecting, device_input |-> device_input,
     connect_btn |-> connect_btn, disconnect_btn |-> disconnect_btn,
     start_btn |-> start_btn, stop_btn |-> stop_btn, gui |-> gui,
     run |-> run, teardown |-> teardown, origin |-> origin]

\* the state after a handler of the GUI thread has returned
Commit(s) ==
    /\ url' = s.url
    /\ is_running' = s.is_running
    /\ is_connected_flag' = s.is_connected_flag
    /\ websocket' = s.websocket
    /\ current_image' = s.current_image
    /\ url_variants' = s.url_variants
    /\ thread' = s.thread
    /\ wired' = s.wired
    /\ tried' = s.tried
    /\ emitted' = s.emitted
    /\ stopped' = s.stopped
    /\ overlap' = s.overlap
    /\ queue' = s.queue
    /\ websocket_client' = s.websocket_client
    /\ is_recording' = s.is_recording
    /\ current_session' = s.current_session
    /\ reconnect_timer' = s.reconnect_timer
    /\ reconnect_attempts' = s.reconnect_attempts
    /\ max_reconnect_attempts' = s.max_reconnect_attempts
    /\ disconnecting' = s.disconnecting
    /\ device_input' = s.device_input
    /\ connect_btn' = s.connect_btn
    /\ disconnect_btn' = s.disconnect_btn
    /\ start_btn' = s.start_btn
    /\ stop_btn' = s.stop_btn
    /\ gui' = s.gui
    /\ run' = s.run
    /\ teardown' = s.teardown
    /\ origin' = s.origin
    /\ UNCHANGED <<stream, app, store, norm, rx>>

\* ------------------------------------------------------- WebSocketClient
\* WebSocketClient.__init__: the state of a freshly constructed client
ClientInit ==
    /\ is_running = [c \in Clients |-> FALSE]
    /\ is_connected_flag = [c \in Clients |-> FALSE]
    /\ websocket = [c \in Clients |-> FALSE]
    /\ current_image = [c \in Clients |-> FALSE]
    /\ url_variants = [c \in Clients |-> << >>]
    /\ thread = [c \in Clients |-> [t \in ThreadIds |-> NoThread]]
    /\ wired = [c \in Clients |-> FALSE]
    /\ tried = [c \in Clients |-> << >>]
    /\ emitted = [c \in Clients |-> NoEmitted]
    /\ stopped = [c \in Clients |-> FALSE]
    /\ overlap = [c \in Clients |-> FALSE]

\* a signal emitted by client c: counted, and, from a connection thread, posted to
\* the GUI loop when a slot is connected (a queued connection across threads)
Count(c, sig) == emitted' = [emitted EXCEPT ![c][sig] = Min(@ + 1, EmitCap)]
CanPost(c) == ~wired[c] \/ Len(queue) < MaxQueue
Post(c, sig) == queue' = IF wired[c] THEN Append(queue, <<c, sig>>) ELSE queue

\* WebSocketClient.connect_to_device; called on the GUI thread.  No slot is connected to
\* error_occurred when the address is empty: the owner never passes an empty address.
connect_to_device(s, c) ==
    IF s.url[c] = << >> THEN
        [s EXCEPT !.emitted[c].error = Min(@ + 1, EmitCap)]
    ELSE IF s.is_connected_flag[c] THEN
        s
    ELSE
        LET free == ThreadIds \ LiveThreadsOf(s.thread[c]) IN
        [s EXCEPT !.is_running[c] = TRUE,
                  !.url_variants[c] = UrlVariants(s.url[c]),
                  !.thread[c] = [t \in ThreadIds |->
                                    IF t = LowestFree(free) THEN NewThread
                                    ELSE IF LiveThread(s.thread[c][t]) THEN s.thread[c][t]
                                    ELSE NoThread],
                  !.tried[c] = << >>,
                  !.emitted[c] = NoEmitted,
                  !.overlap[c] = (LiveThreadsOf(s.thread[c]) # {}),
                  !.stopped[c] = FALSE]

\* a thread slot is left for the thread connect_to_device would start
CanStart(s, c) ==
    s.url[c] = << >> \/ s.is_connected_flag[c] \/ LiveThreadsOf(s.thread[c]) # ThreadIds

\* WebSocketClient.disconnect_from_device; called on the GUI thread, by the owner only
\* after it has disconnected its slots from the client's signals
disconnect_from_device(s, c) ==
    [s EXCEPT !.is_running[c] = FALSE,
              !.is_connected_flag[c] = FALSE,
              !.websocket[c] = FALSE,
              !.current_image[c] = FALSE,
              !.emitted[c].disconnected = Min(@ + 1, EmitCap),
              !.stopped[c] = TRUE]

ConnectToDevice(c) == CanStart(State, c) /\ Commit(connect_to_device(State, c))

DisconnectFromDevice(c) ==
    /\ c \in Clients
    /\ Commit(disconnect_from_device(State, c))

\* ---- the connection thread: _run_connection, _websocket_handler, _receive_messages
SetPc(c, t, p) == thread' = [thread EXCEPT ![c][t].pc = p]

\* _run_connection, line 143: the thread starts iterating self.url_variants
ThreadBegin(c, t) ==
    /\ thread[c][t].pc = "start"
    /\ UNCHANGED otherVars
    /\ thread' = [thread EXCEPT ![c][t] = [@ EXCEPT !.pc = "loop", !.i = 1,
                                                   !.urls = url_variants[c]]]
    /\ UNCHANGED <<url, is_running, is_connected_flag, websocket, current_image,
                   url_variants, wired, tried, emitted, stopped, overlap, queue>>

\* _run_connection, lines 143-150: next candidate, unless stopped or exhausted
RunLoop(c, t) ==
    /\ thread[c][t].pc = "loop"
    /\ UNCHANGED otherVars
    /\ IF thread[c][t].i <= Len(thread[c][t].urls) /\ is_running[c]
       THEN /\ SetPc(c, t, "handshake")
            /\ tried' = [tried EXCEPT ![c] = Append(@, thread[c][t].i)]
       ELSE /\ SetPc(c, t, "run_finally")
            /\ UNCHANGED tried
    /\ UNCHANGED <<url, is_running, is_connected_flag, websocket, current_image,
                   url_variants, wired, emitted, stopped, overlap, queue>>

\* _websocket_handler, lines 171-183: the handshake succeeds
HandshakeOk(c, t) ==
    /\ thread[c][t].pc = "handshake"
    /\ UNCHANGED otherVars
    /\ websocket' = [websocket EXCEPT ![c] = TRUE]
    /\ is_connected_flag' = [is_connected_flag EXCEPT ![c] = TRUE]
    /\ thread' = [thread EXCEPT ![c][t] = [@ EXCEPT !.pc = "emit_connected", !.sock = TRUE]]
    /\ UNCHANGED <<url, is_running, current_image, url_variants, wired, tried, emitted,
                   stopped, overlap, queue>>

\* _websocket_handler, line 185
EmitConnected(c, t) ==
    /\ thread[c][t].pc = "emit_connected"
    /\ UNCHANGED otherVars
    /\ CanPost(c)
    /\ Count(c, "connected")
    /\ Post(c, "connected")
    /\ SetPc(c, t, "recv_head")
    /\ UNCHANGED <<url, is_running, is_connected_flag, websocket, current_image,
                   url_variants, wired, tried, stopped, overlap>>

\* _websocket_handler, lines 190-198: timeout or refusal, re-raised
HandshakeFail(c, t) ==
    /\ thread[c][t].pc = "handshake"
    /\ UNCHANGED otherVars
    /\ SetPc(c, t, "fail_finally")
    /\ UNCHANGED <<url, is_running, is_connected_flag, websocket, current_image,
                   url_variants, wired, tried, emitted, stopped, overlap, queue>>

\* _websocket_handler, lines 200-203: the finally block, after a failure or a return
HandlerFinally(c, t) ==
    /\ thread[c][t].pc \in {"fail_finally", "ok_finally"}
    /\ UNCHANGED otherVars
    /\ is_connected_flag' = [is_connected_flag EXCEPT ![c] = FALSE]
    /\ IF is_running[c]
       THEN /\ CanPost(c)
            /\ Count(c, "disconnected")
            /\ Post(c, "disconnected")
       ELSE UNCHANGED <<emitted, queue>>
    /\ SetPc(c, t, IF thread[c][t].pc = "fail_finally" THEN "except" ELSE "run_finally")
    /\ UNCHANGED <<url, is_running, websocket, current_image, url_variants, wired, tried,
                   stopped, overlap>>

\* _run_connection, lines 152-156: the except clause of one candidate
RunExcept(c, t) ==
    /\ thread[c][t].pc = "except"
    /\ UNCHANGED otherVars
    /\ IF thread[c][t].i = Len(thread[c][t].urls)
       THEN /\ CanPost(c)
            /\ Count(c, "error")
            /\ Post(c, "error")
       ELSE UNCHANGED <<emitted, queue>>
    /\ thread' = [thread EXCEPT ![c][t] = [@ EXCEPT !.pc = "loop", !.i = @ + 1]]
    /\ UNCHANGED <<url, is_running, is_connected_flag, websocket, current_image,
                   url_variants, wired, tried, stopped, overlap>>

\* _receive_messages, line 209: the loop condition
RecvHead(c, t) ==
    /\ thread[c][t].pc = "recv_head"
    /\ UNCHANGED otherVars
    /\ SetPc(c, t, IF is_running[c] /\ websocket[c] THEN "recv_wait" ELSE "ok_finally")
    /\ UNCHANGED <<url, is_running, is_connected_flag, websocket, current_image,
                   url_variants, wired, tried, emitted, stopped, overlap, queue>>

\* _receive_messages, lines 212-216 and _process_image_data: a frame arrives
RecvImage(c, t) ==
    /\ thread[c][t].pc = "recv_wait"
    /\ UNCHANGED otherVars
    /\ CanPost(c)
    /\ current_image' = [current_image EXCEPT ![c] = TRUE]
    /\ Post(c, "image")
    /\ SetPc(c, t, "recv_head")
    /\ UNCHANGED <<url, is_running, is_connected_flag, websocket, url_variants, wired,
                   tried, emitted, stopped, overlap>>

\* _receive_messages, lines 221-226: the device closes the connection
RecvClosed(c, t) ==
    /\ thread[c][t].pc = "recv_wait"
    /\ UNCHANGED otherVars
    /\ thread' = [thread EXCEPT ![c][t] = [@ EXCEPT !.pc = "ok_finally", !.sock = FALSE]]
    /\ UNCHANGED <<url, is_running, is_connected_flag, websocket, current_image,
                   url_variants, wired, tried, emitted, stopped, overlap, queue>>

\* _run_connection, lines 161-163: the thread's finally block; the thread ends
RunFinally(c, t) ==
    /\ thread[c][t].pc = "run_finally"
    /\ UNCHANGED otherVars
    /\ is_connected_flag' = [is_connected_flag EXCEPT ![c] = FALSE]
    /\ is_running' = [is_running EXCEPT ![c] = FALSE]
    /\ thread' = [thread EXCEPT ![c][t] = [@ EXCEPT !.pc = "done", !.sock = FALSE]]
    /\ UNCHANGED <<url, websocket, current_image, url_variants, wired, tried, emitted,
                   stopped, overlap, queue>>

\* the steps a connection thread takes on its own (the handshake is bounded by the
\* connect timeout, so its outcome always arrives)
ThreadStep(c, t) ==
    \/ ThreadBegin(c, t)
    \/ RunLoop(c, t)
    \/ HandshakeOk(c, t)
    \/ EmitConnected(c, t)
    \/ HandshakeFail(c, t)
    \/ HandlerFinally(c, t)
    \/ RunExcept(c, t)
    \/ RecvHead(c, t)
    \/ RunFinally(c, t)

\* the steps that wait for the device
DeviceStep(c, t) ==
    \/ RecvImage(c, t)
    \/ RecvClosed(c, t)


\* ----------------------------------------------------------- BaseRecorder
\* self.websocket_client = None
NoClient == 0

\* BaseRecorder.init_variables and the buttons as ControlPanelManager creates them
RecorderInit ==
    /\ websocket_client = NoClient
    /\ is_recording = FALSE
    /\ current_session = NoSession
    /\ reconnect_timer = FALSE
    /\ reconnect_attempts = 0
    /\ disconnecting = FALSE
    /\ connect_btn = TRUE
    /\ disconnect_btn = FALSE
    /\ start_btn = TRUE
    /\ stop_btn = FALSE
    /\ gui = "idle"
    /\ run = 0
    /\ teardown = "no"
    /\ origin = [c \in Clients |-> "none"]

\* the client objects that are gone once the owner lets go of them: no thread, no
\* delivery pending
FreeClients(s) ==
    {c \in Clients : /\ LiveThreadsOf(s.thread[c]) = {}
                     /\ \A k \in 1..Len(s.queue) : s.queue[k][1] # c}

\* connect_device, lines 174-183: WebSocketClient(), set_url, the signal connections
new_client(s, c, addr) ==
    [s EXCEPT !.url[c] = addr,
              !.is_running[c] = FALSE,
              !.is_connected_flag[c] = FALSE,
              !.websocket[c] = FALSE,
              !.current_image[c] = FALSE,
              !.url_variants[c] = << >>,
              !.thread[c] = [t \in ThreadIds |-> NoThread],
              !.tried[c] = << >>,
              !.emitted[c] = NoEmitted,
              !.stopped[c] = FALSE,
              !.overlap[c] = FALSE,
              !.wired[c] = TRUE,
              !.websocket_client = c]

\* BaseRecorder.connect_device ("blocked": the model has no client object left to
\* construct, and the step is not taken)
connect_device(s) ==
    LET s1 == [s EXCEPT !.disconnecting = FALSE]
        device_addr == Strip(s1.device_input)
    IN  IF device_addr = << >> THEN s1
        ELSE IF FreeClients(s1) = {} THEN [s1 EXCEPT !.gui = "blocked"]
        ELSE LET c == LowestFree(FreeClients(s1))
                 s2 == new_client(s1, c, WithPath(device_addr))
                 s3 == connect_to_device(s2, c)
             IN  [s3 EXCEPT !.connect_btn = FALSE]

\* stop_recording, lines 375-380: what follows the message box
stop_tail(s) == [s EXCEPT !.current_session = NoSession]

\* BaseRecorder.stop_recording; pk: create_package returns a path.  The message box is
\* modal: the handler is suspended in it (gui = ctx) while the GUI loop keeps delivering.
stop_recording(s, ctx, pk) ==
    IF ~s.is_recording THEN s
    ELSE LET s1 == [s EXCEPT !.is_recording = FALSE, !.start_btn = TRUE, !.stop_btn = FALSE]
         IN  IF s1.current_session.open /\ s1.current_session.image_count > 0 /\ pk
             THEN [s1 EXCEPT !.gui = ctx]
             ELSE stop_tail(s1)

\* disconnect_device, lines 207-240: after the recording has been stopped.  Disconnecting
\* the slots also discards the client's deliveries still queued for them.
disconnect_tail(s) ==
    LET c == s.websocket_client
        s1 == IF c # NoClient
              THEN [disconnect_from_device(
                        [s EXCEPT !.wired[c] = FALSE,
                                  !.queue = SelectSeq(s.queue, LAMBDA e : e[1] # c)], c)
                    EXCEPT !.websocket_client = NoClient]
              ELSE s
    IN  [s1 EXCEPT !.reconnect_timer = FALSE,
                   !.reconnect_attempts = 0,
                   !.connect_btn = TRUE,
                   !.disconnect_btn = FALSE,
                   !.disconnecting = FALSE,
                   !.run = 0]

\* BaseRecorder.disconnect_device
disconnect_device(s, pk) ==
    LET s1 == [s EXCEPT !.disconnecting = TRUE]
        s2 == IF s1.is_recording THEN stop_recording(s1, "dlg_disc", pk) ELSE s1
    IN  IF s2.gui # s1.gui THEN s2 ELSE disconnect_tail(s2)

\* BaseRecorder.on_device_connected
on_device_connected(s) ==
    [s EXCEPT !.reconnect_attempts = 0,
              !.reconnect_timer = FALSE,
              !.disconnect_btn = TRUE,
              !.start_btn = TRUE,
              !.run = 0]

\* BaseRecorder.on_device_disconnected without the test of _disconnecting
on_device_disconnected_noguard(s, pk) ==
    IF s.is_recording /\ s.reconnect_attempts < s.max_reconnect_attempts THEN
        [s EXCEPT !.reconnect_attempts = @ + 1,
                  !.reconnect_timer = TRUE,
                  !.run = @ + 1]
    ELSE
        LET s1 == IF s.is_recording
                  THEN stop_recording([s EXCEPT !.run = @ + 1, !.teardown = "budget"],
                                      "dlg_ondisc", pk)
                  ELSE s
        IN  IF s1.gui # s.gui THEN s1 ELSE disconnect_device(s1, pk)

\* BaseRecorder.on_device_disconnected without the test of is_recording
on_device_disconnected_norec(s, pk) ==
    IF s.disconnecting THEN s
    ELSE IF s.reconnect_attempts < s.max_reconnect_attempts THEN
        [s EXCEPT !.reconnect_attempts = @ + 1,
                  !.reconnect_timer = TRUE,
                  !.run = @ + 1]
    ELSE
        LET s1 == IF s.is_recording
                  THEN stop_recording([s EXCEPT !.run = @ + 1, !.teardown = "budget"],
                                      "dlg_ondisc", pk)
                  ELSE s
        IN  IF s1.gui # s.gui THEN s1 ELSE disconnect_device(s1, pk)

\* BaseRecorder.on_device_disconnected with the budget test off by one
on_device_disconnected_le(s, pk) ==
    IF s.disconnecting THEN s
    ELSE IF s.is_recording /\ s.reconnect_attempts <= s.max_reconnect_attempts THEN
        [s EXCEPT !.reconnect_attempts = @ + 1,
                  !.reconnect_timer = TRUE,
                  !.run = @ + 1]
    ELSE
        LET s1 == IF s.is_recording
                  THEN stop_recording([s EXCEPT !.run = @ + 1, !.teardown = "budget"],
                                      "dlg_ondisc", pk)
                  ELSE s
        IN  IF s1.gui # s.gui THEN s1 ELSE disconnect_device(s1, pk)

\* BaseRecorder.on_device_disconnected
on_device_disconnected(s, pk) ==
    IF s.disconnecting THEN s
    ELSE IF s.is_recording /\ s.reconnect_attempts < s.max_reconnect_attempts THEN
        [s EXCEPT !.reconnect_attempts = @ + 1,
                  !.reconnect_timer = TRUE,
                  !.run = @ + 1]
    ELSE
        LET s1 == IF s.is_recording
                  THEN stop_recording([s EXCEPT !.run = @ + 1, !.teardown = "budget"],
                                      "dlg_ondisc", pk)
                  ELSE s
        IN  IF s1.gui # s.gui THEN s1 ELSE disconnect_device(s1, pk)

\* BaseRecorder.on_connection_error
on_connection_error(s) == [s EXCEPT !.connect_btn = TRUE]

\* BaseRecorder.auto_reconnect beginning a new session on the new client
auto_reconnect_newsession(s) ==
    IF s.is_recording /\ s.reconnect_attempts <= s.max_reconnect_attempts
    THEN connect_device([s EXCEPT !.current_session = [open |-> TRUE, image_count |-> 0]])
    ELSE s

\* BaseRecorder.auto_reconnect without the is_recording test
auto_reconnect_any(s) ==
    IF s.reconnect_attempts <= s.max_reconnect_attempts
    THEN connect_device(s)
    ELSE s

\* BaseRecorder.auto_reconnect
auto_reconnect(s) ==
    IF s.is_recording /\ s.reconnect_attempts <= s.max_reconnect_attempts
    THEN connect_device(s)
    ELSE s

\* BaseRecorder.save_current_image; ok: RecordingSession.save_image wrote the file
save_current_image(s, ok) ==
    IF ~s.current_session.open THEN s
    ELSE IF ok THEN [s EXCEPT !.current_session.image_count = Min(@ + 1, MaxImages)]
    ELSE s

\* BaseRecorder.on_image_received (the auto-save box is checked)
on_image_received(s, ok) ==
    IF s.is_recording THEN save_current_image(s, ok) ELSE s

\* BaseRecorder.start_recording
start_recording(s) ==
    IF s.websocket_client = NoClient \/ ~s.is_connected_flag[s.websocket_client] THEN s
    ELSE [s EXCEPT !.current_session = [open |-> TRUE, image_count |-> 0],
                   !.is_recording = TRUE,
                   !.start_btn = FALSE,
                   !.stop_btn = TRUE]

\* the interpreter reclaims the client objects nothing refers to any more
Collect(s) ==
    LET free == FreeClients(s) \ {s.websocket_client} IN
    [s EXCEPT !.url = [c \in Clients |-> IF c \in free THEN << >> ELSE @[c]],
              !.is_running = [c \in Clients |-> IF c \in free THEN FALSE ELSE @[c]],
              !.is_connected_flag = [c \in Clients |-> IF c \in free THEN FALSE ELSE @[c]],
              !.websocket = [c \in Clients |-> IF c \in free THEN FALSE ELSE @[c]],
              !.current_image = [c \in Clients |-> IF c \in free THEN FALSE ELSE @[c]],
              !.url_variants = [c \in Clients |-> IF c \in free THEN << >> ELSE @[c]],
              !.thread = [c \in Clients |-> IF c \in free
                                            THEN [t \in ThreadIds |-> NoThread] ELSE @[c]],
              !.wired = [c \in Clients |-> IF c \in free THEN FALSE ELSE @[c]],
              !.tried = [c \in Clients |-> IF c \in free THEN << >> ELSE @[c]],
              !.emitted = [c \in Clients |-> IF c \in free THEN NoEmitted ELSE @[c]],
              !.stopped = [c \in Clients |-> IF c \in free THEN FALSE ELSE @[c]],
              !.overlap = [c \in Clients |-> IF c \in free THEN FALSE ELSE @[c]],
              !.origin = [c \in Clients |-> IF c \in free THEN "none" ELSE @[c]]]

\* the state after a handler of the recorder has returned
Return(s) == s.gui # "blocked" /\ Commit(Collect(s))

\* ---- the GUI thread: clicks, queued signal deliveries, the timer, the message box
\* the user clicks connect_btn
ClickConnect ==
    /\ gui = "idle" /\ connect_btn
    /\ LET s1 == connect_device(State)
       IN  Return([s1 EXCEPT !.teardown = "no",
                             !.origin = [c \in Clients |->
                                 IF c # s1.websocket_client THEN @[c]
                                 ELSE IF is_recording THEN "user_rec" ELSE "user"]])

\* the user clicks disconnect_btn
ClickDisconnect ==
    /\ gui = "idle" /\ disconnect_btn
    /\ \E pk \in BOOLEAN :
         Return(disconnect_device(
                  [State EXCEPT !.teardown = IF reconnect_timer THEN "backoff"
                                              ELSE IF is_recording THEN "rec"
                                              ELSE "idle"], pk))

\* the user clicks start_btn
ClickStart ==
    /\ gui = "idle" /\ start_btn
    /\ Return(start_recording(State))

\* the user clicks stop_btn
ClickStop ==
    /\ gui = "idle" /\ stop_btn
    /\ \E pk \in BOOLEAN : Return(stop_recording(State, "dlg_stop", pk))

\* the GUI loop delivers the oldest queued signal to its slot
Deliver ==
    /\ queue # << >>
    /\ LET sig == Head(queue)[2]
           s == [State EXCEPT !.queue = Tail(queue)]
       IN  \E b \in BOOLEAN :
             Return(CASE sig = "connected" -> on_device_connected(s)
                      [] sig = "disconnected" -> on_device_disconnected(s, b)
                      [] sig = "error" -> on_connection_error(s)
                      [] sig = "image" -> on_image_received(s, b))

\* reconnect_timer (single shot) times out
TimerFire ==
    /\ reconnect_timer
    /\ LET s1 == auto_reconnect([State EXCEPT !.reconnect_timer = FALSE])
       IN  Return(IF s1.thread # thread
                  THEN [s1 EXCEPT !.origin[s1.websocket_client] = "auto"]
                  ELSE s1)

\* the user closes the message box; the suspended handler runs to its end
DialogClose ==
    /\ gui # "idle"
    /\ LET s == stop_tail([State EXCEPT !.gui = "idle"])
       IN  Return(CASE gui = "dlg_stop" -> s
                    [] gui = "dlg_disc" -> disconnect_tail(s)
                    [] gui = "dlg_ondisc" -> disconnect_device(s, FALSE))


\* -------------------------------------------------- WebSocketImageStream
\* check_heartbeat: checks without data before the stream restarts itself
HeartbeatLimit == 50

S_port == <<":", "8", "0">>
S_mdns1 == <<"w", "s", ":", "/", "/", "p", "a", "p", "e", "r", "1", ".", "l", "o", "c", "a", "l", ":", "8", "0", "/", "w", "s">>
S_mdns2 == <<"w", "s", ":", "/", "/", "p", "a", "p", "e", "r", "2", ".", "l", "o", "c", "a", "l", ":", "8", "0", "/", "w", "s">>
S_mdns3 == <<"w", "s", ":", "/", "/", "p", "a", "p", "e", "r", "3", ".", "l", "o", "c", "a", "l", ":", "8", "0", "/", "w", "s">>

\* WebSocketImageStream._convert_to_websocket_urls
convert_to_websocket_urls(u) ==
    IF StartsWith(u, S_ws) \/ StartsWith(u, S_wss) THEN <<u>>
    ELSE IF StartsWith(u, S_http) THEN <<Replace(u, S_http, S_ws) \o S_path>>
    ELSE IF StartsWith(u, S_https) THEN <<Replace(u, S_https, S_wss) \o S_path>>
    ELSE LET a == S_ws \o u
             b == IF ~Contains(u, ":") THEN a \o S_port ELSE a
         IN  <<IF ~EndsWith(b, S_path) THEN b \o S_path ELSE b>>

\* WebSocketImageStream._get_mdns_urls_by_device_type
get_mdns_urls_by_device_type(device_type) ==
    IF device_type = 1 THEN <<S_mdns1>>
    ELSE IF device_type = 2 THEN <<S_mdns2>>
    ELSE IF device_type = 3 THEN <<S_mdns3>>
    ELSE << >>

\* the addresses and device types a caller hands to init
StreamUrls == {A_bare}
DeviceTypes == {0, 1}

NoConn == [pc |-> "none", idx |-> 0]

\* WebSocketImageStream.__init__
NewStream ==
    [websocket |-> FALSE, is_running |-> FALSE, is_connected |-> FALSE,
     current_url |-> << >>, connection_urls |-> << >>, connection_attempts |-> 0,
     image_not_receive_count |-> 0, heartbeat_timer |-> FALSE,
     conn |-> [t \in ThreadIds |-> NoConn],
     attempted |-> << >>, reported |-> 0, connects |-> 0,
     started |-> FALSE, stops |-> FALSE, overlapped |-> FALSE,
     raised |-> FALSE, blocked |-> FALSE,
     \* history: flipped by every check_heartbeat
     beat |-> FALSE]

\* WebSocketImageStream.init
stream_init(s, u, device_type) ==
    IF u = << >> /\ s.current_url = << >> THEN s
    ELSE IF u # << >> THEN
        [s EXCEPT !.current_url = u,
                  !.connection_attempts = 0,
                  !.connection_urls = convert_to_websocket_urls(u)
                                          \o get_mdns_urls_by_device_type(device_type)]
    ELSE s

LiveConns(s) == {t \in ThreadIds : s.conn[t].pc \notin {"none", "done"}}

\* WebSocketImageStream._try_connect_to_next_address; the new thread takes slot t
try_connect_to_next_address(s, t) ==
    IF s.connection_attempts >= Len(s.connection_urls) THEN
        [s EXCEPT !.reported = Min(@ + 1, EmitCap)]
    ELSE
        [s EXCEPT !.connection_attempts = @ + 1,
                  !.conn[t] = [pc |-> "handshake", idx |-> s.connection_attempts + 1],
                  !.attempted = Append(@, s.connection_attempts + 1)]

\* WebSocketImageStream.start ("blocked": the model has no thread slot left, and the
\* step is not taken)
stream_start(s) ==
    IF s.connection_urls = << >> /\ s.current_url = << >> THEN s
    ELSE IF s.is_running THEN s
    ELSE IF LiveConns(s) = ThreadIds THEN [s EXCEPT !.blocked = TRUE]
    ELSE LET s1 == [s EXCEPT !.connection_attempts = 0,
                             !.attempted = << >>,
                             !.reported = 0,
                             !.connects = 0,
                             !.started = TRUE,
                             !.stops = FALSE,
                             !.overlapped = (LiveConns(s) # {})]
             s2 == try_connect_to_next_address(s1, LowestFree(ThreadIds \ LiveConns(s)))
         IN  [s2 EXCEPT !.heartbeat_timer = TRUE]

\* WebSocketImageStream.stop: with a socket at hand, asyncio.create_task is called on the
\* GUI thread, which runs no event loop, and raises
stream_stop(s) ==
    LET s1 == [s EXCEPT !.is_running = FALSE,
                        !.is_connected = FALSE,
                        !.heartbeat_timer = FALSE,
                        !.stops = TRUE]
    IN  IF s1.websocket THEN [s1 EXCEPT !.raised = TRUE] ELSE s1

\* WebSocketImageStream.check_heartbeat
check_heartbeat(s) ==
    LET s0 == [s EXCEPT !.beat = ~@] IN
    IF s0.current_url = << >> THEN [s0 EXCEPT !.heartbeat_timer = FALSE]
    ELSE IF s0.image_not_receive_count > HeartbeatLimit THEN
        LET s1 == stream_stop([s0 EXCEPT !.image_not_receive_count = 0,
                                         !.is_running = FALSE])
        IN  IF s1.raised THEN s1 ELSE stream_start(s1)
    ELSE [s0 EXCEPT !.image_not_receive_count = @ + 1]

\* the state after a method of the stream has returned or raised
StreamReturn(s) ==
    /\ ~s.blocked
    /\ stream' = [s EXCEPT !.raised = FALSE]
    /\ UNCHANGED <<clientVars, queue, recVars, app, store, norm, rx>>

\* the owner calls start
StreamStart ==
    /\ ~stream.blocked
    /\ StreamReturn(stream_start(stream))

\* the owner calls stop
StreamStop ==
    /\ ~stream.blocked
    /\ StreamReturn(stream_stop(stream))

\* heartbeat_timer times out
Heartbeat ==
    /\ stream.heartbeat_timer
    /\ StreamReturn(check_heartbeat(stream))

\* _websocket_connection, lines 218-228: the handshake succeeds
StreamHandshakeOk(t) ==
    /\ stream.conn[t].pc = "handshake"
    /\ StreamReturn([stream EXCEPT !.websocket = TRUE,
                                   !.is_connected = TRUE,
                                   !.is_running = TRUE,
                                   !.image_not_receive_count = 0,
                                   !.connects = Min(@ + 1, EmitCap),
                                   !.conn[t].pc = "recv"])

\* _websocket_connection, lines 242-244: the handshake times out
StreamHandshakeTimeout(t) ==
    /\ stream.conn[t].pc = "handshake"
    /\ StreamReturn([stream EXCEPT !.conn[t].pc = "next"])

\* _websocket_connection, lines 245-249: another exception; at the handshake a refusal,
\* later the connection lost
StreamException(t) ==
    /\ stream.conn[t].pc \in {"handshake", "recv"}
    /\ StreamReturn([stream EXCEPT !.conn[t].pc =
                                       IF stream.is_running THEN "next" ELSE "done"])

\* the failed thread calls _try_connect_to_next_address and ends
StreamTryNext(t) ==
    /\ stream.conn[t].pc = "next"
    /\ StreamReturn(try_connect_to_next_address([stream EXCEPT !.conn[t].pc = "done"], t))

\* _websocket_connection, lines 231-240 and _handle_binary_message: a binary message
StreamMessage(t) ==
    /\ stream.conn[t].pc = "recv"
    /\ StreamReturn(IF ~stream.is_running
                    THEN [stream EXCEPT !.conn[t].pc = "done"]
                    ELSE [stream EXCEPT !.is_running = TRUE,
                                        !.image_not_receive_count = 0])

\* _websocket_connection, line 231: the device closes the connection in good order
StreamClosed(t) ==
    /\ stream.conn[t].pc = "recv"
    /\ StreamReturn([stream EXCEPT !.conn[t].pc = "done"])


\* ------------------------------- PaperTrackerRecorder: multi-stage recording
\* the stage plans: self.recording_stages, as the list of its target_count values
Plans == UNION {[1..n -> 1..MaxTarget] : n \in 1..MaxStages}

NoGuide == [st |-> "none", stage |-> 0, should_stop |-> FALSE]

\* PaperTrackerRecorder.init_variables, with a connected device and the multi-stage
\* mode selected.  fq: the finished signals of voice guides queued for the GUI loop;
\* shots: the QTimer.singleShot calls pending; crashed: the process was aborted;
\* history: completed (complete_multi_stage_recording ran), packages made, a frame
\* arrived since the last save, cancelled (the recording was stopped while its guide ran)
NewApp(p) ==
    [recording_stages |-> p,
     is_recording |-> FALSE, is_multi_stage_recording |-> FALSE,
     current_stage |-> 0, stage_recording_count |-> 0, recording_count |-> 0,
     stage_timer |-> FALSE, current_image |-> FALSE, voice_guide |-> NoGuide,
     start_btn |-> TRUE, stop_btn |-> FALSE, gui |-> "idle",
     fq |-> << >>, shots |-> 0, crashed |-> FALSE,
     completed |-> FALSE, cancelled |-> FALSE, packages |-> 0, fresh |-> FALSE,
     blocked |-> FALSE]

\* QThread.isRunning of a voice guide: its run has not returned yet ("emitted": run has
\* emitted finished and is about to return)
isRunning(g) == g.st \in {"running", "emitted"}

\* VoiceGuide.stop and QThread.wait, as the recorder calls them on a running guide
stop_voice_guide(a) ==
    IF isRunning(a.voice_guide)
    THEN [a EXCEPT !.voice_guide.should_stop = TRUE, !.voice_guide.st = "done"]
    ELSE a

\* PaperTrackerRecorder.create_multi_stage_package
create_multi_stage_package(a) ==
    IF a.recording_count = 0 THEN a
    ELSE [a EXCEPT !.packages = Min(@ + 1, EmitCap)]

\* PaperTrackerRecorder.complete_multi_stage_recording
complete_multi_stage_recording(a) ==
    LET a1 == stop_voice_guide([a EXCEPT !.is_multi_stage_recording = FALSE,
                                         !.is_recording = FALSE,
                                         !.stage_timer = FALSE])
    IN  create_multi_stage_package([a1 EXCEPT !.start_btn = TRUE,
                                              !.stop_btn = FALSE,
                                              !.completed = TRUE])

\* PaperTrackerRecorder.start_stage.  Rebinding self.voice_guide destroys the previous
\* VoiceGuide; a QThread destroyed while it is running aborts the process.
start_stage(a, stage_index) ==
    IF stage_index >= Len(a.recording_stages) THEN complete_multi_stage_recording(a)
    ELSE LET a1 == [a EXCEPT !.current_stage = stage_index,
                             !.stage_recording_count = 0,
                             !.stage_timer = FALSE]
         IN  IF isRunning(a1.voice_guide)
             THEN [a1 EXCEPT !.crashed = TRUE]
             ELSE [a1 EXCEPT !.voice_guide = [st |-> "running", stage |-> stage_index,
                                              should_stop |-> FALSE]]

\* PaperTrackerRecorder.start_multi_stage_recording
start_multi_stage_recording(a) ==
    start_stage([a EXCEPT !.is_multi_stage_recording = TRUE,
                          !.is_recording = TRUE,
                          !.current_stage = 0,
                          !.recording_count = 0,
                          !.start_btn = FALSE,
                          !.stop_btn = TRUE,
                          !.completed = FALSE,
                          !.cancelled = FALSE,
                          !.packages = 0], 0)

\* PaperTrackerRecorder.start_stage_recording
start_stage_recording(a, stage_index) == [a EXCEPT !.stage_timer = TRUE]

\* PaperTrackerRecorder.save_stage_image (cv2.imwrite reports a failure by its result,
\* which is not looked at)
save_stage_image(a) ==
    IF ~a.current_image \/ a.current_stage >= Len(a.recording_stages) THEN a
    ELSE [a EXCEPT !.stage_recording_count = Min(@ + 1, MaxTarget + 2),
                   !.recording_count = Min(@ + 1, MaxStages * MaxTarget + 2),
                   !.fresh = FALSE]

\* PaperTrackerRecorder.complete_current_stage ("blocked": more pending single shots
\* than the model holds)
complete_current_stage(a) ==
    IF a.shots >= MaxQueue THEN [a EXCEPT !.blocked = TRUE]
    ELSE [a EXCEPT !.stage_timer = FALSE, !.shots = @ + 1]

\* PaperTrackerRecorder.stage_capture_image with the test for a cached frame left out
stage_capture_image_nocheck(a) ==
    IF ~a.is_multi_stage_recording \/ a.current_stage >= Len(a.recording_stages) THEN a
    ELSE LET a1 == [a EXCEPT !.stage_recording_count = Min(@ + 1, MaxTarget + 2),
                             !.recording_count = Min(@ + 1, MaxStages * MaxTarget + 2),
                             !.fresh = FALSE]
         IN  IF a1.stage_recording_count >= a1.recording_stages[a1.current_stage + 1]
             THEN complete_current_stage(a1)
             ELSE a1

\* PaperTrackerRecorder.stage_capture_image
stage_capture_image(a) ==
    IF ~a.is_multi_stage_recording \/ a.current_stage >= Len(a.recording_stages) THEN a
    ELSE LET a1 == IF a.current_image THEN save_stage_image(a) ELSE a
         IN  IF a1.stage_recording_count >= a1.recording_stages[a1.current_stage + 1]
             THEN complete_current_stage(a1)
             ELSE a1

\* stop_multi_stage_recording, lines 1438-1451: after the question box
stop_multi_stage_tail(a) ==
    [a EXCEPT !.is_multi_stage_recording = FALSE,
              !.is_recording = FALSE,
              !.start_btn = TRUE,
              !.stop_btn = FALSE]

\* PaperTrackerRecorder.stop_multi_stage_recording, up to the modal question box
stop_multi_stage_recording(a) ==
    IF ~a.is_multi_stage_recording THEN a
    ELSE LET a1 == stop_voice_guide([a EXCEPT !.stage_timer = FALSE,
                                              !.cancelled = isRunning(a.voice_guide)])
         IN  IF a1.recording_count > 0
             THEN [a1 EXCEPT !.gui = "dlg_stop"]
             ELSE stop_multi_stage_tail(a1)

\* PaperTrackerRecorder.stop_single_recording (nothing is recorded in single mode here)
stop_single_recording(a) ==
    IF ~a.is_recording THEN a
    ELSE [a EXCEPT !.is_recording = FALSE, !.start_btn = TRUE, !.stop_btn = FALSE]

\* PaperTrackerRecorder.stop_recording
app_stop_recording(a) ==
    IF a.is_multi_stage_recording
    THEN stop_multi_stage_recording(a)
    ELSE stop_single_recording(a)

\* PaperTrackerRecorder.on_image_received: in multi-stage mode the frame is only cached
app_on_image_received(a) == [a EXCEPT !.current_image = TRUE, !.fresh = TRUE]

\* the state after a handler of the recorder has returned
AppReturn(a) ==
    /\ ~a.blocked
    /\ app' = a
    /\ UNCHANGED <<clientVars, queue, recVars, stream, store, norm, rx>>

\* the user clicks start_btn
StageClickStart ==
    /\ ~app.crashed /\ app.gui = "idle" /\ app.start_btn
    /\ AppReturn(start_multi_stage_recording(app))

\* the user clicks stop_btn
StageClickStop ==
    /\ ~app.crashed /\ app.gui = "idle" /\ app.stop_btn
    /\ AppReturn(app_stop_recording(app))

\* the user answers the question box of stop_multi_stage_recording
StageAnswer ==
    /\ ~app.crashed /\ app.gui = "dlg_stop"
    /\ \E yes \in BOOLEAN :
         LET a == [app EXCEPT !.gui = "idle"]
         IN  AppReturn(stop_multi_stage_tail(IF yes THEN create_multi_stage_package(a)
                                             ELSE a))

\* stage_timer times out
StageTimerTick ==
    /\ ~app.crashed /\ app.stage_timer
    /\ AppReturn(stage_capture_image(app))

\* a single shot of complete_current_stage times out
ShotFire ==
    /\ ~app.crashed /\ app.shots > 0
    /\ AppReturn(start_stage([app EXCEPT !.shots = @ - 1], app.current_stage + 1))

\* the GUI loop delivers a queued finished signal to its lambda
DeliverFinished ==
    /\ ~app.crashed /\ app.fq # << >>
    /\ AppReturn(start_stage_recording([app EXCEPT !.fq = Tail(@)], Head(app.fq)))

\* the GUI loop delivers a frame of the connected client
FrameArrives ==
    /\ ~app.crashed
    /\ AppReturn(app_on_image_received(app))

\* VoiceGuide.run reaches its end with should_stop unset: the guide emits finished
GuideEnds ==
    /\ ~app.crashed /\ app.voice_guide.st = "running"
    /\ Len(app.fq) < MaxQueue
    /\ AppReturn([app EXCEPT !.fq = Append(@, app.voice_guide.stage),
                             !.voice_guide.st = "emitted"])

\* VoiceGuide.run returns after the emit: the thread of the guide ends
GuideExits ==
    /\ ~app.crashed /\ app.voice_guide.st = "emitted"
    /\ AppReturn([app EXCEPT !.voice_guide.st = "done"])


\* --------------------------------------- saving images and packaging a session
\* The three implementations of saving and packaging: RecordingSession behind
\* BaseRecorder ("session"), the single mode of PaperTrackerRecorder ("single") and its
\* multi-stage mode ("multi").
Impls == {"session", "single", "multi"}

Folders == 1..MaxFolders
NoFolder == 0

\* what cv2.imwrite does: it writes the file, returns False, or raises
WriteOutcomes == {"ok", "false", "raise"}

\* where packaging fails: nowhere, opening the archive, writing an image into it,
\* writing recording_info.json, or in shutil.rmtree after the archive was closed
FailPoints == {"none", "open", "write", "info", "rmtree"}

NoArchive == [made |-> FALSE]

\* os.path.join(folder, [stage folder,] filename): a path is the folder, the stage
\* folder (0: none) and the file name; a name carries its timestamp, its counter value
\* and its extension
join(folder, sub, name) == <<folder, sub, name>>

\* os.path.relpath(file_path, folder) of a path below folder
relpath(file_path, folder) ==
    IF file_path[1] = folder THEN Tail(file_path) ELSE <<"..">> \o file_path

\* os.listdir in place of os.walk: the files of the stage folders are left out
listdir_jpg(st, folder) ==
    {p \in st.disk[folder].files : p[3].ext = "jpg" /\ p[2] = 0}

\* os.walk(folder) with the '.jpg' filter of the packaging loops
walk_jpg(st, folder) == {p \in st.disk[folder].files : p[3].ext = "jpg"}

\* int(duration.total_seconds() / 60), the clock counted in half minutes
duration_minutes(st) == (st.elapsed * 30) \div 60

\* RecordingSession._create_session_folder / create_recording_directory: a new folder
\* named after the user and the current second ("blocked": the model has no more names)
create_recording_directory(st) ==
    IF st.next_folder > MaxFolders THEN [st EXCEPT !.blocked = TRUE]
    ELSE [st EXCEPT !.session_folder = st.next_folder,
                    !.disk[st.next_folder] = [exists |-> TRUE, files |-> {}],
                    !.next_folder = @ + 1]

\* the state of the image store of a recorder that has not recorded yet; written and
\* before are history: the files written in this session, the files of the folder when
\* packaging began; zips are the archives of the output directory, the parent of the
\* session folders, each with its name and the time it was written
EmptyStore(impl) ==
    [impl |-> impl, recording |-> FALSE, session_folder |-> NoFolder,
     disk |-> [f \in Folders |-> [exists |-> FALSE, files |-> {}]],
     next_folder |-> 1, image_count |-> 0, current_stage |-> 0,
     stage_recording_count |-> 0, clock |-> 0, elapsed |-> 0,
     archive |-> NoArchive, save_result |-> "none", package_result |-> "none",
     error_box |-> FALSE, written |-> 0, before |-> {}, packed_folder |-> NoFolder,
     failed_at |-> "none", blocked |-> FALSE, zips |-> {}]

\* PaperTrackerRecorder creates its folder in setup_default_settings, RecordingSession
\* when a recording starts
NewStore(impl) ==
    IF impl = "session" THEN EmptyStore(impl)
    ELSE create_recording_directory(EmptyStore(impl))

\* BaseRecorder.start_recording / start_single_recording / start_multi_stage_recording
store_start(st) ==
    LET s1 == [st EXCEPT !.recording = TRUE, !.image_count = 0, !.elapsed = 0,
                         !.current_stage = 0, !.stage_recording_count = 0,
                         !.written = 0, !.save_result = "none",
                         !.package_result = "none", !.error_box = FALSE,
                         !.archive = NoArchive, !.before = {},
                         !.packed_folder = NoFolder, !.failed_at = "none"]
    IN  IF st.impl = "session" THEN create_recording_directory(s1) ELSE s1

\* cv2.imwrite(filepath, ...) with the given outcome
imwrite(st, filepath, outcome) ==
    IF outcome = "ok" /\ st.disk[filepath[1]].exists
    THEN [st EXCEPT !.disk[filepath[1]].files = @ \cup {filepath}, !.written = @ + 1]
    ELSE st

\* RecordingSession.save_image
save_image(st, outcome) ==
    LET name == [ts |-> st.clock + 1, ctr |-> st.image_count, ext |-> "jpg"]
        s1 == imwrite([st EXCEPT !.clock = @ + 1],
                      join(st.session_folder, 0, name), outcome)
    IN  IF outcome = "ok"
        THEN [s1 EXCEPT !.image_count = @ + 1, !.save_result = "ok"]
        ELSE [s1 EXCEPT !.save_result = "failed"]

\* PaperTrackerRecorder.save_current_image
app_save_current_image(st, outcome) ==
    LET name == [ts |-> st.clock + 1, ctr |-> st.image_count, ext |-> "jpg"]
        s1 == imwrite([st EXCEPT !.clock = @ + 1],
                      join(st.session_folder, 0, name), outcome)
    IN  IF outcome = "raise"
        THEN [s1 EXCEPT !.save_result = "failed"]
        ELSE [s1 EXCEPT !.image_count = @ + 1, !.save_result = "ok"]

\* PaperTrackerRecorder.save_stage_image
store_save_stage_image(st, outcome) ==
    LET name == [ts |-> st.clock + 1, ctr |-> st.stage_recording_count, ext |-> "jpg"]
        s1 == imwrite([st EXCEPT !.clock = @ + 1],
                      join(st.session_folder, st.current_stage + 1, name), outcome)
    IN  IF outcome = "raise"
        THEN [s1 EXCEPT !.save_result = "failed"]
        ELSE [s1 EXCEPT !.stage_recording_count = @ + 1,
                        !.image_count = @ + 1,
                        !.save_result = "ok"]

\* the zipfile.ZipFile block of the packaging functions: every .jpg below the folder
\* under its relative path, then recording_info.json; a failure leaves what was written.
\* Mode 'w' replaces the archive of that name in the output directory.
build_archive(st, folder, name, fail) ==
    IF fail = "open" THEN st
    ELSE LET zipf == [made |-> TRUE, name |-> name,
                      entries |-> IF fail = "write" THEN {}
                                  ELSE {relpath(p, folder) : p \in walk_jpg(st, folder)},
                      infos |-> IF fail \in {"write", "info"} THEN 0 ELSE 1]
         IN  [st EXCEPT !.archive = zipf,
                        !.zips = {z \in @ : z.name # name}
                                     \cup {[name |-> name, mtime |-> st.clock]}]

\* shutil.rmtree(folder); when it fails the files in left are still there
rmtree(st, folder, fail, left) ==
    IF fail = "rmtree"
    THEN [st EXCEPT !.disk[folder].files = left]
    ELSE [st EXCEPT !.disk[folder] = [exists |-> FALSE, files |-> {}]]

\* packaging that removes the folder whether or not the archive was built
package_folder_rm(st, name, fail, left) ==
    LET folder == st.session_folder
        s0 == [st EXCEPT !.before = st.disk[folder].files,
                         !.packed_folder = folder,
                         !.failed_at = fail]
    IN  rmtree(build_archive(s0, folder, name, fail), folder, fail, left)

\* the part the three packaging functions share: lines 89-114 of RecordingSession
package_folder(st, name, fail, left) ==
    LET folder == st.session_folder
        s0 == [st EXCEPT !.before = st.disk[folder].files,
                         !.packed_folder = folder,
                         !.failed_at = fail]
        s1 == build_archive(s0, folder, name, fail)
    IN  IF fail \in {"open", "write", "info"} THEN s1
        ELSE rmtree(s1, folder, fail, left)

\* RecordingSession.create_package without the test of image_count
create_package_nozero(st, fail, left) ==
    LET dm == duration_minutes(st)
        name == [username |-> "u", eyedata |-> FALSE, pics |-> st.image_count,
                 duration |-> IF dm > 0 THEN [unit |-> "min", n |-> dm]
                              ELSE [unit |-> "unknown", n |-> 0]]
        s1 == package_folder(st, name, fail, left)
    IN  [s1 EXCEPT !.package_result = IF fail = "none" THEN "path" ELSE "None"]

\* RecordingSession.create_package
create_package(st, fail, left) ==
    IF st.image_count = 0 THEN [st EXCEPT !.package_result = "None"]
    ELSE LET dm == duration_minutes(st)
             name == [username |-> "u", eyedata |-> FALSE, pics |-> st.image_count,
                      duration |-> IF dm > 0 THEN [unit |-> "min", n |-> dm]
                                   ELSE [unit |-> "unknown", n |-> 0]]
             s1 == package_folder(st, name, fail, left)
         IN  [s1 EXCEPT !.package_result = IF fail = "none" THEN "path" ELSE "None"]

\* PaperTrackerRecorder.create_recording_package
create_recording_package(st, fail, left) ==
    IF st.session_folder = NoFolder \/ st.image_count = 0
    THEN [st EXCEPT !.package_result = "None"]
    ELSE LET name == [username |-> "u", eyedata |-> FALSE, pics |-> st.image_count,
                      duration |-> [unit |-> "min", n |-> duration_minutes(st)]]
             s1 == package_folder(st, name, fail, left)
         IN  IF fail = "none"
             THEN create_recording_directory([s1 EXCEPT !.package_result = "info_box"])
             ELSE [s1 EXCEPT !.package_result = "error_box", !.error_box = TRUE]

\* PaperTrackerRecorder.create_multi_stage_package, as far as the files go
store_create_multi_stage_package(st, fail, left) ==
    IF st.session_folder = NoFolder \/ st.image_count = 0
    THEN [st EXCEPT !.package_result = "None"]
    ELSE LET name == [username |-> "u", eyedata |-> TRUE, pics |-> st.image_count,
                      duration |-> [unit |-> "min", n |-> duration_minutes(st)]]
             s1 == package_folder(st, name, fail, left)
         IN  IF fail = "none"
             THEN create_recording_directory([s1 EXCEPT !.package_result = "info_box"])
             ELSE [s1 EXCEPT !.package_result = "logged"]

\* BaseRecorder.stop_recording / stop_single_recording / stop_multi_stage_recording,
\* as far as the files go; yes: the answer to the question box of the multi-stage stop
store_stop(st, yes, fail, left) ==
    IF ~st.recording THEN st
    ELSE LET s1 == [st EXCEPT !.recording = FALSE] IN
         CASE st.impl = "session" ->
                  IF s1.image_count > 0 THEN create_package(s1, fail, left) ELSE s1
           [] st.impl = "single" ->
                  IF s1.image_count > 0 THEN create_recording_package(s1, fail, left)
                  ELSE s1
           [] OTHER ->
                  IF s1.image_count > 0 /\ yes
                  THEN store_create_multi_stage_package(s1, fail, left)
                  ELSE s1

\* the state after a handler has returned
StoreReturn(st) ==
    /\ ~st.blocked
    /\ store' = st
    /\ UNCHANGED <<clientVars, queue, recVars, stream, app, norm, rx>>

\* the user starts a recording
StoreStart ==
    /\ ~store.recording
    /\ StoreReturn(store_start(store))

\* a frame arrives in a recording and is saved (the stage timer ticks in a stage)
StoreSave ==
    /\ store.recording /\ store.clock < MaxSaves
    /\ \E outcome \in WriteOutcomes :
         StoreReturn(CASE store.impl = "session" -> save_image(store, outcome)
                       [] store.impl = "single" -> app_save_current_image(store, outcome)
                       [] OTHER -> store_save_stage_image(store, outcome))

\* start_stage of the next stage
StoreNextStage ==
    /\ store.recording /\ store.impl = "multi" /\ store.current_stage + 1 < MaxStages
    /\ StoreReturn([store EXCEPT !.current_stage = @ + 1, !.stage_recording_count = 0])

\* half a minute passes in a recording
StoreTick ==
    /\ store.recording /\ store.elapsed < MaxElapsed
    /\ StoreReturn([store EXCEPT !.elapsed = @ + 1])

\* the user stops the recording
StoreStop ==
    /\ store.recording
    /\ \E yes \in BOOLEAN, fail \in FailPoints :
         \E left \in SUBSET store.disk[store.session_folder].files :
            /\ (store.impl # "multi") => yes
            /\ (fail # "rmtree") => left = {}
            /\ StoreReturn(store_stop(store, yes, fail, left))

\* a caller packages a session that holds no image: the packaging function of the
\* implementation is called as it is, in or after a recording
StoreFinalize ==
    /\ store.image_count = 0
    /\ store.impl = "session" => store.session_folder # NoFolder
    /\ \E fail \in FailPoints :
         StoreReturn(CASE store.impl = "session" -> create_package(store, fail, {})
                       [] store.impl = "single" -> create_recording_package(store, fail, {})
                       [] OTHER -> store_create_multi_stage_package(store, fail, {}))


\* ------------------------------------------------ the messages of a connection
\* An open connection of the client (WebSocketClient, "client") or of the stream
\* (WebSocketImageStream, "stream") receives binary messages; a message is its length
\* in bytes and what cv2.imdecode makes of it (0: None, otherwise the image).
Receivers == {"client", "stream"}

\* _process_image_data, line 236, and _handle_binary_message, line 259
MinImageBytes == 100
MinMessageBytes == 10

\* image_buffer_queue = queue.Queue(maxsize=10)
BufferSize == 10

Lengths == {0, MinMessageBytes - 1, MinMessageBytes, MinImageBytes - 1, MinImageBytes}
Images == {1, 2}
Messages == [len : Lengths \ {0}, image : Images \cup {0}] \cup {[len |-> 0, image |-> 0]}

\* the receiver once its connection is open; silent: the checks of the heartbeat since
\* the last message.  received, decodes and emitted are history: the binary messages
\* handled, the calls of cv2.imdecode, the image_received signals emitted
NewRx(impl, silent) ==
    [impl |-> impl, pc |-> "recv", is_running |-> TRUE, websocket |-> TRUE,
     current_image |-> 0, image_count |-> 0, image_buffer_queue |-> << >>,
     image_not_receive_count |-> silent,
     received |-> 0, last |-> [len |-> 0, image |-> 0], decodes |-> 0, emitted |-> 0]

\* WebSocketClient._process_image_data without the test of the length
process_image_data_nocheck(r, data) ==
    LET r1 == [r EXCEPT !.decodes = @ + 1] IN
    IF data.image # 0
    THEN [r1 EXCEPT !.current_image = data.image,
                    !.image_count = @ + 1,
                    !.emitted = @ + 1]
    ELSE r1

\* WebSocketClient._process_image_data
process_image_data(r, data) ==
    IF data.len < MinImageBytes THEN r
    ELSE LET r1 == [r EXCEPT !.decodes = @ + 1] IN
         IF data.image # 0
         THEN [r1 EXCEPT !.current_image = data.image,
                         !.image_count = @ + 1,
                         !.emitted = @ + 1]
         ELSE r1

\* WebSocketImageStream._handle_binary_message
handle_binary_message(r, message) ==
    LET r0 == [r EXCEPT !.is_running = TRUE, !.image_not_receive_count = 0] IN
    IF message.len < MinMessageBytes THEN r0
    ELSE LET r1 == [r0 EXCEPT !.decodes = @ + 1] IN
         IF message.image # 0
         THEN [r1 EXCEPT !.image_buffer_queue =
                             Append(IF Len(@) = BufferSize THEN Tail(@) ELSE @,
                                    message.image),
                         !.emitted = @ + 1]
         ELSE r1

\* the state after a step of the receiver
RxReturn(r) ==
    /\ rx' = r
    /\ UNCHANGED <<clientVars, queue, recVars, stream, app, store, norm>>

\* _receive_messages, lines 209-216: recv returns a binary message, it is processed and
\* the loop tests its condition
ClientBinary ==
    /\ rx.impl = "client" /\ rx.pc = "recv" /\ rx.received < MaxMessages
    /\ \E data \in Messages :
         LET r1 == process_image_data([rx EXCEPT !.received = @ + 1, !.last = data], data)
         IN  RxReturn([r1 EXCEPT !.pc = IF r1.is_running /\ r1.websocket
                                        THEN "recv" ELSE "done"])

\* _websocket_connection, lines 232-238: the next message of the async for
StreamBinary ==
    /\ rx.impl = "stream" /\ rx.pc = "recv" /\ rx.received < MaxMessages
    /\ \E message \in Messages :
         RxReturn(IF ~rx.is_running THEN [rx EXCEPT !.pc = "done"]
                  ELSE handle_binary_message(
                           [rx EXCEPT !.received = @ + 1, !.last = message], message))

\* the device closes the connection: ConnectionClosed ends either loop
RxClosed ==
    /\ rx.pc = "recv"
    /\ RxReturn([rx EXCEPT !.pc = "done"])

\* the owner stops the receiver: disconnect_from_device, or stop as far as it gets on
\* the GUI thread with a socket at hand
RxStop ==
    /\ rx.is_running
    /\ RxReturn(IF rx.impl = "client"
                THEN [rx EXCEPT !.is_running = FALSE, !.websocket = FALSE,
                                !.current_image = 0]
                ELSE [rx EXCEPT !.is_running = FALSE])

\* ------------------------------------------------ the candidates of an address
\* the addresses without a path: an optional scheme, a host and an optional port
Schemes == {<< >>, S_ws, S_wss, S_http, S_https}
Hosts == {<<"h">>, <<"a", ".", "b">>}
Ports == {<< >>, <<":", "8">>, S_port}
PathlessAddresses == {sc \o h \o pt : sc \in Schemes, h \in Hosts, pt \in Ports}

\* no address has been configured yet
NewNorm(addr) == [input |-> addr, via |-> "none", candidates |-> << >>]

\* the state after a configuration
NormReturn(via, cands) ==
    /\ norm' = [norm EXCEPT !.via = via, !.candidates = cands]
    /\ UNCHANGED <<clientVars, queue, recVars, stream, app, store, rx>>

\* WebSocketClient.set_url and the candidate list of connect_to_device
ConfigureClient ==
    /\ norm.via = "none"
    /\ NormReturn("client", UrlVariants(norm.input))

\* BaseRecorder.connect_device: the text of the address field, handed to the client
ConfigureRecorder ==
    /\ norm.via = "none"
    /\ NormReturn("recorder", UrlVariants(WithPath(Strip(norm.input))))

\* WebSocketImageStream.init
ConfigureStream ==
    /\ norm.via = "none"
    /\ \E d \in DeviceTypes :
        NormReturn("stream", stream_init(NewStream, norm.input, d).connection_urls)


\* ------------------------------------------------- the client on its own
\* One client object driven through its public interface by an arbitrary caller.
TheClient == 1

\* the caller constructs the client and sets its address once (set_url), or not at all
InitClient ==
    /\ ClientInit
    /\ \E u \in ClientUrls \cup {<< >>} :
          url = [c \in Clients |-> IF c = TheClient THEN u ELSE << >>]
    /\ queue = << >>
    /\ RecorderInit
    /\ max_reconnect_attempts = 0
    /\ device_input = << >>
    /\ stream = NewStream
    /\ app = NewApp(<<1>>)
    /\ store = NewStore("session")
    /\ norm = NewNorm(A_bare)
    /\ rx = NewRx("client", 0)

NextClient ==
    \/ ConnectToDevice(TheClient)
    \/ DisconnectFromDevice(TheClient)
    \/ \E t \in ThreadIds : ThreadStep(TheClient, t)
    \/ \E t \in ThreadIds : DeviceStep(TheClient, t)

SpecClient == InitClient /\ [][NextClient]_vars

\* the threads and the handshake make progress; the device and the caller need not act
FairSpecClient ==
    SpecClient /\ \A t \in ThreadIds : WF_vars(ThreadStep(TheClient, t))

\* ------------------------------------------- the recorder and its clients
Init ==
    /\ ClientInit
    /\ url = [c \in Clients |-> << >>]
    /\ queue = << >>
    /\ RecorderInit
    /\ max_reconnect_attempts \in 0..MaxAttemptsBound
    /\ device_input \in DeviceInputs
    /\ stream = NewStream
    /\ app = NewApp(<<1>>)
    /\ store = NewStore("session")
    /\ norm = NewNorm(A_bare)
    /\ rx = NewRx("client", 0)

Next ==
    \/ ClickConnect
    \/ ClickDisconnect
    \/ ClickStart
    \/ ClickStop
    \/ Deliver
    \/ TimerFire
    \/ DialogClose
    \/ \E c \in Clients, t \in ThreadIds : ThreadStep(c, t)
    \/ \E c \in Clients, t \in ThreadIds : DeviceStep(c, t)

Spec == Init /\ [][Next]_vars

\* TimerFire can be taken: the timer is armed and a reconnect finds a client to construct
TimerFireEnabled ==
    /\ reconnect_timer
    /\ auto_reconnect([State EXCEPT !.reconnect_timer = FALSE]).gui # "blocked"

\* the GUI loop delivers what is queued, a timer that is armed times out, an open
\* message box is closed, the threads make progress; the user need not click and the
\* device need not send.  The weak fairness of Deliver and of TimerFire is written out
\* with the conditions under which they can be taken.
FairSpec ==
    /\ Spec
    /\ []<>(queue = << >>) \/ []<><<Deliver>>_vars
    /\ []<>(~TimerFireEnabled) \/ []<><<TimerFire>>_vars
    /\ WF_vars(DialogClose)
    /\ \A c \in Clients, t \in ThreadIds : WF_vars(ThreadStep(c, t))


\* ------------------------------------------------ the stream on its own
\* One stream object, constructed and given its address by init, then driven through
\* start and stop by an arbitrary caller.
InitStream ==
    /\ ClientInit
    /\ url = [c \in Clients |-> << >>]
    /\ queue = << >>
    /\ RecorderInit
    /\ max_reconnect_attempts = 0
    /\ device_input = << >>
    /\ \E u \in StreamUrls, d \in DeviceTypes : stream = stream_init(NewStream, u, d)
    /\ app = NewApp(<<1>>)
    /\ store = NewStore("session")
    /\ norm = NewNorm(A_bare)
    /\ rx = NewRx("client", 0)

NextStream ==
    \/ StreamStart
    \/ StreamStop
    \/ Heartbeat
    \/ \E t \in ThreadIds : StreamHandshakeOk(t)
    \/ \E t \in ThreadIds : StreamHandshakeTimeout(t)
    \/ \E t \in ThreadIds : StreamException(t)
    \/ \E t \in ThreadIds : StreamTryNext(t)
    \/ \E t \in ThreadIds : StreamMessage(t)
    \/ \E t \in ThreadIds : StreamClosed(t)

SpecStream == InitStream /\ [][NextStream]_vars


\* ------------------------------------------- the multi-stage recording
\* The PaperTrackerRecorder window with a connected device, driven by the user, the
\* device's frames, its timers and its voice guide.
InitStage ==
    /\ ClientInit
    /\ url = [c \in Clients |-> << >>]
    /\ queue = << >>
    /\ RecorderInit
    /\ max_reconnect_attempts = 0
    /\ device_input = << >>
    /\ stream = NewStream
    /\ \E p \in Plans : app = NewApp(p)
    /\ store = NewStore("session")
    /\ norm = NewNorm(A_bare)
    /\ rx = NewRx("client", 0)

NextStage ==
    \/ StageClickStart
    \/ StageClickStop
    \/ StageAnswer
    \/ StageTimerTick
    \/ ShotFire
    \/ DeliverFinished
    \/ FrameArrives
    \/ GuideEnds
    \/ GuideExits

SpecStage == InitStage /\ [][NextStage]_vars


\* ------------------------------------------- saving and packaging
\* A recorder saving the images of its recordings and packaging them at each stop.
InitStore ==
    /\ ClientInit
    /\ url = [c \in Clients |-> << >>]
    /\ queue = << >>
    /\ RecorderInit
    /\ max_reconnect_attempts = 0
    /\ device_input = << >>
    /\ stream = NewStream
    /\ app = NewApp(<<1>>)
    /\ \E impl \in Impls : store = NewStore(impl)
    /\ norm = NewNorm(A_bare)
    /\ rx = NewRx("client", 0)

NextStore ==
    \/ StoreStart
    \/ StoreSave
    \/ StoreNextStage
    \/ StoreTick
    \/ StoreStop
    \/ StoreFinalize

SpecStore == InitStore /\ [][NextStore]_vars


\* ------------------------------------------- the candidates of an address
\* An address without a path is configured into a client, a recorder or a stream.
InitNorm ==
    /\ ClientInit
    /\ url = [c \in Clients |-> << >>]
    /\ queue = << >>
    /\ RecorderInit
    /\ max_reconnect_attempts = 0
    /\ device_input = << >>
    /\ stream = NewStream
    /\ app = NewApp(<<1>>)
    /\ store = NewStore("session")
    /\ \E addr \in PathlessAddresses : norm = NewNorm(addr)
    /\ rx = NewRx("client", 0)

NextNorm ==
    \/ ConfigureClient
    \/ ConfigureRecorder
    \/ ConfigureStream

SpecNorm == InitNorm /\ [][NextNorm]_vars


\* ------------------------------------------- the messages of a connection
\* A client or a stream with an open connection; the stream's heartbeat has or has not
\* run since the last message.
InitFrame ==
    /\ ClientInit
    /\ url = [c \in Clients |-> << >>]
    /\ queue = << >>
    /\ RecorderInit
    /\ max_reconnect_attempts = 0
    /\ device_input = << >>
    /\ stream = NewStream
    /\ app = NewApp(<<1>>)
    /\ store = NewStore("session")
    /\ norm = NewNorm(A_bare)
    /\ \E impl \in Receivers, silent \in {0, 1} :
          /\ impl = "client" => silent = 0
          /\ rx = NewRx(impl, silent)

NextFrame ==
    \/ ClientBinary
    \/ StreamBinary
    \/ RxClosed
    \/ RxStop

SpecFrame == InitFrame /\ [][NextFrame]_vars

\* ------------------------------------------------------------ the claims
\* the GUI loop hands an unexpected disconnect to on_device_disconnected while a
\* recording is active
DisconnectHandled ==
    /\ is_recording /\ ~disconnecting
    /\ queue # << >> /\ Head(queue)[2] = "disconnected"
    /\ Len(queue') < Len(queue)
    /\ teardown' \notin {"idle", "rec", "backoff"}

TornDown == websocket_client = NoClient /\ ~reconnect_timer /\ ~is_recording

\* C1: for the configured max_reconnect_attempts N, in a run of unexpected disconnect
\* events handled during an active recording with no successful connection in between,
\* each of the first N events schedules one reconnect (the backoff timer is started and
\* the recording and the client are kept); the (N+1)-th starts no timer, stops the
\* recording and tears the client down (at once, or when its message box is closed).
C1_ReconnectBudget ==
    [][/\ DisconnectHandled =>
            IF run < max_reconnect_attempts
            THEN /\ run' = run + 1
                 /\ reconnect_attempts' = run'
                 /\ reconnect_timer'
                 /\ is_recording'
                 /\ websocket_client' = websocket_client
                 /\ gui' = "idle"
            ELSE /\ run = max_reconnect_attempts
                 /\ teardown' = "budget"
                 /\ ~is_recording'
                 /\ reconnect_timer' => reconnect_timer
                 /\ IF gui' = "idle" THEN TornDown' ELSE gui' = "dlg_ondisc"
       /\ (gui = "dlg_ondisc" /\ gui' = "idle") => TornDown'
      ]_vars

\* the budget of N >= 1 reconnects was used up and the next disconnect tore the client down
C1_BudgetSpent ==
    /\ max_reconnect_attempts >= 1
    /\ teardown = "budget"
    /\ gui = "idle"
    /\ TornDown

UserDisconnected == teardown \in {"idle", "rec", "backoff"}

\* C2: from the user's click on disconnect (idle, recording, or with a reconnect backoff
\* pending) until the user's next click on connect, no connection thread is started,
\* and once disconnect_device has returned no backoff timer is pending, no client is
\* held and nothing is recorded.
C2_NoReconnectAfterUserDisconnect ==
    [][(UserDisconnected /\ UserDisconnected') =>
          /\ \A c \in Clients, t \in ThreadIds :
                 thread'[c][t].pc = "start" => thread[c][t].pc = "start"
          /\ gui' = "idle" => TornDown'
      ]_vars

\* the user disconnected while a reconnect was scheduled, and disconnect_device returned
C2_DisconnectedDuringBackoff ==
    /\ teardown = "backoff"
    /\ gui = "idle"
    /\ TornDown

\* C7: a client the user connected with no recording active, all of whose handshakes
\* failed and whose thread has ended, has attempted the bare address and then the
\* address with /ws, in that order, has emitted the all-candidates-failed error, and
\* is not connected.
C7_AllCandidatesBeforeStop ==
    \A c \in Clients :
        (/\ origin[c] = "user"
         /\ ~UserDisconnected
         /\ thread[c][1].pc = "done"
         /\ emitted[c].connected = 0)
        => /\ url_variants[c] = <<NormalizeUrl(device_input),
                                  NormalizeUrl(device_input) \o S_path>>
           /\ tried[c] = <<1, 2>>
           /\ emitted[c].error >= 1
           /\ ~is_connected_flag[c]

Connecting(c) == \E t \in ThreadIds : thread[c][t].pc \in {"start", "loop", "handshake"}
Connected(c) == \E t \in ThreadIds : thread[c][t].pc \in {"emit_connected", "recv_head", "recv_wait"}

\* C3: connect_to_device called again with no disconnect_from_device in between, while
\* the first call is still connecting or has connected, leaves the connection state
\* unchanged and starts no second thread or socket.
C3_SecondStartIsNoOp ==
    [][(/\ ConnectToDevice(TheClient)
        /\ ~stopped[TheClient]
        /\ (Connecting(TheClient) \/ Connected(TheClient)))
       => UNCHANGED <<is_running, is_connected_flag, websocket, thread>>]_vars

\* C4: once disconnect_from_device has been called, in whatever state, is_connected()
\* is false and stays false until the next connect_to_device.
C4_StoppedStaysDisconnected ==
    \A c \in Clients : (stopped[c] /\ ~overlap[c]) => ~is_connected_flag[c]

\* C5: after disconnect_from_device the receive loop and its thread eventually end,
\* whatever the device does.
C5_StopEndsReceiveLoop ==
    (stopped[TheClient] /\ ~overlap[TheClient])
        ~> (LiveThreads(TheClient) = {} \/ ~stopped[TheClient])

\* WebSocketClient alone: one connect_to_device with no disconnect_from_device tries
\* the candidates in list order, each at most once, stops at the first successful
\* handshake, and when all fail emits one error and ends not connected, not running.
OneStart(c) == ~overlap[c] /\ ~stopped[c] /\ thread[c][1].pc # "none"
SimpleClientTriesInOrder ==
    LET c == TheClient
        th == thread[c][1]
    IN  OneStart(c) =>
          /\ tried[c] = [j \in 1..Len(tried[c]) |-> j]
          /\ Len(tried[c]) <= Len(url_variants[c])
          /\ emitted[c].connected <= 1
          /\ emitted[c].error <= 1
          /\ (emitted[c].connected = 1 \/ th.pc = "emit_connected")
                => (Len(tried[c]) = th.i /\ emitted[c].error = 0)
          /\ (th.pc = "done" /\ emitted[c].connected = 0)
                => /\ Len(tried[c]) = Len(url_variants[c])
                   /\ emitted[c].error = 1
                   /\ ~is_connected_flag[c]
                   /\ ~is_running[c]

\* C6: one start with no stop (and no thread of an earlier start left) attempts the
\* candidates in list order, each at most once; when every attempt has failed and the
\* threads have ended, all candidates were attempted, exactly one all-candidates-failed
\* error was emitted, and the stream is neither connected nor running.
C6_CandidatesInOrder ==
    (stream.started /\ ~stream.stops /\ ~stream.overlapped) =>
        /\ stream.attempted = [j \in 1..Len(stream.attempted) |-> j]
        /\ Len(stream.attempted) <= Len(stream.connection_urls)
        /\ stream.reported <= 1
        /\ (LiveConns(stream) = {} /\ stream.connects = 0) =>
              /\ Len(stream.attempted) = Len(stream.connection_urls)
              /\ stream.reported = 1
              /\ ~stream.is_connected
              /\ ~stream.is_running

\* C8: once complete_multi_stage_recording has run, the recording is over and the stage
\* index equals the number of stages.
C8_CompleteAtPlanLength ==
    app.completed =>
        /\ ~app.is_multi_stage_recording
        /\ app.current_stage = Len(app.recording_stages)

\* C9: during a multi-stage recording the count of the current stage never exceeds the
\* stage's target_count.
C9_CountWithinTarget ==
    (app.is_multi_stage_recording /\ app.current_stage < Len(app.recording_stages)) =>
        app.stage_recording_count <= app.recording_stages[app.current_stage + 1]

C11_StopCancelsGuidance ==
    [][(app.cancelled /\ app.cancelled') =>
          /\ ~app.stage_timer'
          /\ app.current_stage' = app.current_stage
          /\ app.recording_count' = app.recording_count
          /\ app.voice_guide' = app.voice_guide
      ]_vars

\* C12: a save that writes no file reports a failure and leaves the image counter as it
\* was; a save that writes a file names it by the counter and adds one to it, so the
\* counter stays the number of files the session has written.
C12_CounterCountsWrittenFiles ==
    [][store.clock' = store.clock + 1 =>
          /\ store.written' = store.written =>
                (store.save_result' = "failed" /\ store.image_count' = store.image_count)
          /\ store.written' = store.written + 1 =>
                \E p \in store.disk'[store.session_folder].files :
                    p[3].ctr = IF store.impl = "multi" THEN store.stage_recording_count
                               ELSE store.image_count
          /\ store.image_count' = store.written'
      ]_vars

\* C13: after a packaging that succeeded the archive holds exactly the files the session
\* folder held when packaging began, each under its path relative to the folder, and
\* one recording_info.json, and the packaged folder is gone.
C13_ArchiveHoldsTheFolder ==
    store.package_result \in {"path", "info_box"} =>
        /\ store.archive.made
        /\ store.archive.entries = {<<p[2], p[3]>> : p \in store.before}
        /\ Cardinality(store.archive.entries) = Cardinality(store.before)
        /\ \A p \in store.before : p[1] = store.packed_folder
        /\ store.archive.infos = 1
        /\ ~store.disk[store.packed_folder].exists

\* a multi-stage session with files in two stage folders was packaged
C13_PackagedTwoStages ==
    /\ store.impl = "multi"
    /\ store.package_result = "info_box"
    /\ \E p, q \in store.before : p[2] # q[2]

C15_FailedPackagingKeepsSession ==
    [][(/\ is_recording /\ ~is_recording'
        /\ current_session.open /\ current_session.image_count > 0
        /\ gui' = gui) =>
          current_session'.open
      ]_vars

\* C16: a single-mode session whose n >= 1 saves all wrote their file, stopped and
\* packaged before a minute has passed, has written the counter values 0 .. n-1 in
\* order, its archive is named {username}_{n}pics_0min.zip and its folder is gone.
C16_UnderAMinuteIsZeroMin ==
    (/\ store.impl \in {"session", "single"}
     /\ store.package_result \in {"path", "info_box"}
     /\ store.elapsed < 2
     /\ store.written = store.image_count
     /\ Cardinality(store.before) = store.image_count) =>
        /\ store.image_count >= 1
        /\ {p[3].ctr : p \in store.before} = 0..(store.image_count - 1)
        /\ \A p, q \in store.before : p[3].ts < q[3].ts <=> p[3].ctr < q[3].ctr
        /\ store.archive.name = [username |-> "u", eyedata |-> FALSE,
                                 pics |-> store.image_count,
                                 duration |-> [unit |-> "min", n |-> 0]]
        /\ ~store.disk[store.packed_folder].exists

\* C17: the candidate list made of an address without a path has at least two entries,
\* the address without a path first and the same address with /ws appended second.
C17_BareFirstThenPath ==
    norm.via # "none" =>
        /\ Len(norm.candidates) >= 2
        /\ ~EndsWith(norm.candidates[1], S_path)
        /\ norm.candidates[2] = norm.candidates[1] \o S_path

\* C18: a check of the no-data watchdog leaves the connection as it is: it does not
\* stop it, does not start a connection attempt and changes none of its flags.
C18_WatchdogOnlyWarns ==
    [][stream.beat' # stream.beat =>
          /\ stream.is_running' = stream.is_running
          /\ stream.is_connected' = stream.is_connected
          /\ stream.websocket' = stream.websocket
          /\ stream.conn' = stream.conn
          /\ stream.connection_attempts' = stream.connection_attempts
      ]_vars

C20_NoReconnectWhenIdle ==
    [][/\ (/\ ~is_recording
            /\ queue # << >> /\ Head(queue)[2] \in {"disconnected", "error"}
            /\ Len(queue') < Len(queue)) =>
              /\ reconnect_timer' => reconnect_timer
              /\ reconnect_attempts' <= reconnect_attempts
              /\ \A c \in Clients, t \in ThreadIds :
                     thread'[c][t].pc = "start" => thread[c][t].pc = "start"
              /\ (~disconnecting /\ Head(queue)[2] = "disconnected") => TornDown'
       /\ (TornDown /\ ~TornDown') =>
              /\ websocket_client' # NoClient
              /\ origin'[websocket_client'] \in {"user", "user_rec"}
      ]_vars

\* the client of a recorder that was not recording was torn down on its disconnected
\* signal while its connection thread goes on
C20_TornDownWhileIdle ==
    /\ TornDown /\ teardown = "no" /\ gui = "idle"
    /\ \E c \in Clients : LiveThreads(c) # {}

\* C21: from the disconnected signal that schedules a reconnect, through the timer's
\* auto_reconnect, to the connected signal of the new client, the recording stays active
\* on the same session; and no signal handled while the recording stays active closes
\* its session or lowers its image counter.
C21_ReconnectKeepsSession ==
    [][/\ (is_recording /\ reconnect_attempts' = reconnect_attempts + 1) =>
              /\ is_recording' /\ reconnect_timer'
              /\ current_session' = current_session
              /\ websocket_client' = websocket_client
       /\ (is_recording /\ reconnect_timer /\ ~reconnect_timer'
             /\ websocket_client' # NoClient) =>
              /\ is_recording'
              /\ current_session' = current_session
       /\ (is_recording /\ queue # << >> /\ Head(queue)[2] = "connected"
             /\ queue' = Tail(queue) /\ websocket_client' # NoClient) =>
              /\ is_recording'
              /\ current_session' = current_session
              /\ reconnect_attempts' = 0
       /\ (is_recording /\ is_recording' /\ queue # << >> /\ queue' = Tail(queue)) =>
              /\ current_session'.open
              /\ current_session'.image_count >= current_session.image_count
      ]_vars

\* a recording with a saved image goes on, on the client auto_reconnect made, after that
\* client's connected signal has been handled
C21_RecordingOnReconnectedClient ==
    /\ is_recording /\ current_session.open /\ current_session.image_count >= 1
    /\ websocket_client # NoClient
    /\ origin[websocket_client] = "auto"
    /\ is_connected_flag[websocket_client]
    /\ reconnect_attempts = 0 /\ ~reconnect_timer

\* C22: packaging a session whose image counter is 0 returns None and touches no
\* file: no archive is made, no file and no folder is removed, the session keeps its
\* folder.
C22_EmptySessionNotPackaged ==
    [][(/\ store.image_count = 0
        /\ store.package_result # "None"
        /\ store'.package_result = "None") =>
          /\ store'.disk = store.disk
          /\ store'.archive = store.archive
          /\ store'.session_folder = store.session_folder
          /\ store'.next_folder = store.next_folder
          /\ store'.image_count = 0
      ]_vars

\* a started recording without a saved image was packaged: None came back, its folder
\* is there and no archive was made
C22_EmptyRecordingFinalized ==
    /\ store.recording /\ store.image_count = 0 /\ store.written = 0
    /\ store.package_result = "None"
    /\ store.session_folder # NoFolder
    /\ store.disk[store.session_folder].exists
    /\ ~store.archive.made

\* C23: a binary message shorter than the receiver's minimum size is never handed to
\* cv2.imdecode: no image_received is emitted, the cached frame (current_image, the
\* buffer of the stream) and the counter of received images stay as they are, and the
\* receive loop of a receiver that was not stopped goes on on the same connection.
C23_ShortMessageDropped ==
    [][(/\ rx'.received = rx.received + 1
        /\ rx'.last.len < (IF rx.impl = "client" THEN MinImageBytes
                           ELSE MinMessageBytes)) =>
          /\ rx'.decodes = rx.decodes
          /\ rx'.emitted = rx.emitted
          /\ rx'.current_image = rx.current_image
          /\ rx'.image_buffer_queue = rx.image_buffer_queue
          /\ rx'.image_count = rx.image_count
          /\ rx'.websocket = rx.websocket
          /\ (rx.is_running /\ rx.websocket) => rx'.pc = "recv"
      ]_vars

\* the client holds a frame and has just dropped a message of 99 bytes that
\* cv2.imdecode would have decoded to another image
C23_ShortDecodableDropped ==
    /\ rx.impl = "client" /\ rx.pc = "recv"
    /\ rx.received >= 2 /\ rx.decodes = 1 /\ rx.emitted = 1 /\ rx.image_count = 1
    /\ rx.last.len = MinImageBytes - 1
    /\ rx.last.image # 0 /\ rx.last.image # rx.current_image

\* C24: in a multi-stage recording an image is saved only in a stage whose guide has
\* emitted finished and which has not reached its target count: never while a guide is
\* running, and never after the stage has reached its target (the pause before the
\* next stage).
C24_SavesOnlyInStage ==
    [][app'.recording_count > app.recording_count =>
          /\ app.voice_guide.st \in {"emitted", "done"}
          /\ ~app.voice_guide.should_stop
          /\ app.voice_guide.stage = app.current_stage
          /\ app.stage_recording_count < app.recording_stages[app.current_stage + 1]
      ]_vars

\* C25: once a multi-stage recording has been stopped or has completed, and until the
\* next one is started, no stage is started, no guide begins, the stage timer is not
\* started and nothing is packaged; and no recording is packaged more than once.
C25_NothingAfterTheEnd ==
    [][/\ (~app.is_multi_stage_recording /\ ~app'.is_multi_stage_recording) =>
              /\ app'.current_stage = app.current_stage
              /\ app'.voice_guide.st = "running" => app.voice_guide.st = "running"
              /\ app'.stage_timer => app.stage_timer
              /\ app'.packages = app.packages
       /\ app'.packages <= 1
      ]_vars

\* C26: from the return of disconnect_from_device to the next start of the client, no
\* frame is processed: current_image stays None (and image_received, emitted with the
\* assignment of current_image, is not emitted).
C26_NoFrameAfterStop ==
    [][(stopped[TheClient] /\ stopped'[TheClient]) => ~current_image'[TheClient]]_vars

\* C27: a disconnected signal that the connection thread emits answers a connected
\* signal of the same start that no disconnected has answered yet: none is emitted for
\* a candidate whose handshake failed, and none twice for one connection.
C27_DisconnectedAnswersConnected ==
    [][(/\ is_running[TheClient] /\ is_running'[TheClient]
        /\ emitted'[TheClient].disconnected > emitted[TheClient].disconnected) =>
          emitted[TheClient].connected > emitted[TheClient].disconnected
      ]_vars

\* C28: an archive that packaging has produced is named after as many pictures (the
\* image count that recording_info.json records too) as it holds image files.
C28_ArchiveCountIsItsFiles ==
    (store.package_result \in {"path", "info_box"} /\ store.archive.made) =>
        store.archive.name.pics = Cardinality(store.archive.entries)

\* C29: an archive of the output directory stays there as it is whatever is recorded
\* and packaged afterwards: a later session adds its own archive and replaces none.
C29_ArchivesAreKept ==
    [][\A z \in store.zips : z \in store'.zips]_vars

\* the recorder holds a client that is connected
ClientConnected == websocket_client # NoClient /\ is_connected_flag[websocket_client]

\* the teardown is complete: the client released, the counter reset, nothing recorded
CompleteTeardown == websocket_client = NoClient /\ reconnect_attempts = 0 /\ ~is_recording

\* C30: once a disconnect in a recording has armed the reconnect backoff, the recorder
\* comes to hold a connected client again or to a complete teardown, whether or not the
\* user stops the recording while the backoff is pending.
C30_BackoffEnds ==
    reconnect_timer ~> (ClientConnected \/ CompleteTeardown)

====
